---- MODULE Spec2Model ----
(***************************************************************************)
(* Cadmus: the backend that toggles microphone noise suppression by        *)
(* loading and unloading PulseAudio modules (src/main/python/main.py).     *)
(*                                                                         *)
(* The model follows one machine: the audio server (its table of loaded    *)
(* modules; its source list is whatever it answers when it is asked), the  *)
(* plugin file in the cache directory,                                     *)
(* and at most one running cadmus process at a time.  A process is either  *)
(* the command line (CadmusApplicationCli: construct, run, end) or a host  *)
(* that keeps a CadmusBackendApp and calls its methods in any order (the   *)
(* tray application is such a host).  The server outlives the processes.   *)
(*                                                                         *)
(* Every handler is one action.  The server may reject any module-load     *)
(* request (pulse.module_load then raises); the source-list query and the  *)
(* writes on the cli socket are taken to be answered.                      *)
(***************************************************************************)
EXTENDS Integers, Sequences, FiniteSets, TLC

VARIABLES
    pc,               \* "off": no process; "cli": CLI constructed; "app": host holds a backend
    args,             \* CadmusApplicationCli.args (cmd, source)
    audio_sources,    \* CadmusBackendApp.audio_sources (names of the cached sources)
    cadmus_lib_path,  \* CadmusBackendApp.cadmus_lib_path
    modules,          \* the server's loaded modules: module name -> number of instances
    plugin_files,     \* paths at which a copy of the plugin binary exists
    copied,           \* the running process has completed drop_cadmus_binary
    first_ret,        \* <<>> before the process's first sources_list(), then <<its result>>
    active,           \* enable create-sequences issued since the last disable
    last              \* the last operation: its inputs, its outcome, the server requests it
                      \* issued, the modules and the cache before it, the stage the server rejected

vars == <<pc, args, audio_sources, cadmus_lib_path, modules,
          plugin_files, copied, first_ret, active, last>>

----------------------------------------------------------------------------
(* Bounds *)

MaxDevices == 2      \* number of distinct source names
MaxChains  == 2      \* enable create-sequences between two disables
LevelSpan  == 1      \* control levels range over Floor-LevelSpan .. Floor+LevelSpan

(* Program constants *)

Floor == 50          \* the floor of the control level
CliLevel == 50       \* the level the CLI passes to enable

NamePool == <<"mic0", "mic1", "mic2", "mic3">>
AllNames == SubSeq(NamePool, 1, MaxDevices)
Devices  == {AllNames[i] : i \in 1..Len(AllNames)}
Levels   == (Floor - LevelSpan)..(Floor + LevelSpan)

CachePath == "$HOME/.cache/cadmus/librnnoise_ladspa.so"

NullSink   == "module-null-sink"
LadspaSink == "module-ladspa-sink"
Loopback   == "module-loopback"
RemapSrc   == "module-remap-source"
ModuleNames == {NullSink, LadspaSink, Loopback, RemapSrc}

----------------------------------------------------------------------------
(* Server requests.  args is the "key=value key=value" string of           *)
(* module_load as a sequence of <<key, value>> pairs.                      *)

Request(api, name, a) == [api |-> api, name |-> name, args |-> a]

SourceListQuery == Request("source_list", "", <<>>)

HasArg(req, key) == \E i \in 1..Len(req.args) : req.args[i][1] = key
Arg(req, key) == req.args[CHOOSE i \in 1..Len(req.args) : req.args[i][1] = key][2]

\* pulse.source_list(): the server's sources in the server's order
source_list(S) == SelectSeq(AllNames, LAMBDA n : n \in S)

\* CadmusBackendApp.sources_list
sources_list(cache, server) ==
    IF Len(cache) > 0
    THEN [audio_sources |-> cache, ret |-> cache, reqs |-> <<>>]
    ELSE [audio_sources |-> cache \o source_list(server),
          ret           |-> cache \o source_list(server),
          reqs          |-> <<SourceListQuery>>]

Range(s) == {s[i] : i \in 1..Len(s)}

\* variant: the level is passed through without the floor
ClampLevel_unclamped(control_level) == control_level

\* max(control_level, 50)
ClampLevel(control_level) == IF control_level > Floor THEN control_level ELSE Floor

\* variant: the loopback is created before the filter sink it feeds
LoadRequests_loopback_first(mic_name, control_level, lib_path) ==
    << Request("module_load", NullSink,
               << <<"sink_name", "mic_denoised_out">>,
                  <<"sink_properties", "device.description='Cadmus Microphone Sink'">> >>),
       Request("module_load", Loopback,
               << <<"latency_msec", "1">>,
                  <<"source", mic_name>>,
                  <<"sink", "mic_raw_in">>,
                  <<"channels", "1">> >>),
       Request("module_load", LadspaSink,
               << <<"sink_name", "mic_raw_in">>,
                  <<"sink_master", "mic_denoised_out">>,
                  <<"label", "noise_suppressor_mono">>,
                  <<"plugin", lib_path>>,
                  <<"control", ToString(ClampLevel(control_level))>>,
                  <<"sink_properties", "device.description='Cadmus Raw Microphone Redirect'">> >>),
       Request("module_load", RemapSrc,
               << <<"master", "mic_denoised_out" \o ".monitor">>,
                  <<"source_name", "denoised">>,
                  <<"source_properties",
                    "device.description='Cadmus Denoised Microphone (Use me!)'">> >>) >>

\* the four module_load calls of load_modules, in program order;
\* "%d" % control_level is the decimal text of the clamped level
LoadRequests(mic_name, control_level, lib_path) ==
    << Request("module_load", NullSink,
               << <<"sink_name", "mic_denoised_out">>,
                  <<"sink_properties", "device.description='Cadmus Microphone Sink'">> >>),
       Request("module_load", LadspaSink,
               << <<"sink_name", "mic_raw_in">>,
                  <<"sink_master", "mic_denoised_out">>,
                  <<"label", "noise_suppressor_mono">>,
                  <<"plugin", lib_path>>,
                  <<"control", ToString(ClampLevel(control_level))>>,
                  <<"sink_properties", "device.description='Cadmus Raw Microphone Redirect'">> >>),
       Request("module_load", Loopback,
               << <<"latency_msec", "1">>,
                  <<"source", mic_name>>,
                  <<"sink", "mic_raw_in">>,
                  <<"channels", "1">> >>),
       Request("module_load", RemapSrc,
               << <<"master", "mic_denoised_out" \o ".monitor">>,
                  <<"source_name", "denoised">>,
                  <<"source_properties",
                    "device.description='Cadmus Denoised Microphone (Use me!)'">> >>) >>

\* variant: a rejected module_load is swallowed and the later stages still run
load_modules_carry_on(mic_name, control_level, lib_path, reject) ==
    LET stages == LoadRequests(mic_name, control_level, lib_path)
    IN  [reqs   |-> stages,
         loaded |-> SelectSeq(stages, LAMBDA r : reject = 0 \/ r # stages[reject]),
         result |-> "ok"]

\* CadmusPulseInterface.load_modules.  reject is the first stage the server
\* rejects (0: none): that module_load raises and the later ones never run.
load_modules(mic_name, control_level, lib_path, reject) ==
    LET stages == LoadRequests(mic_name, control_level, lib_path)
    IN  IF reject = 0
        THEN [reqs |-> stages, loaded |-> stages, result |-> "ok"]
        ELSE [reqs   |-> SubSeq(stages, 1, reject),
              loaded |-> SubSeq(stages, 1, reject - 1),
              result |-> "PulseError"]

\* variant: the sinks are unloaded before the loopback
UnloadCommands_sinks_first ==
    << "unload-module module-null-sink",
       "unload-module module-ladspa-sink",
       "unload-module module-loopback",
       "unload-module module-remap-source" >>

\* variant: the remap source is forgotten
UnloadCommands_no_remap ==
    << "unload-module module-loopback",
       "unload-module module-null-sink",
       "unload-module module-ladspa-sink" >>

\* the command list of CadmusPulseInterface.unload_modules
UnloadCommands ==
    << "unload-module module-loopback",
       "unload-module module-null-sink",
       "unload-module module-ladspa-sink",
       "unload-module module-remap-source" >>

\* CadmusPulseInterface.cli_command: one write per command, in list order
cli_command(command) ==
    [i \in 1..Len(command) |-> Request("cli", command[i], <<>>)]

\* CadmusPulseInterface.unload_modules
unload_modules == cli_command(UnloadCommands)

\* CadmusBackendApp.disable_noise_suppression
disable_noise_suppression == unload_modules

\* variant: the microphone name is not validated
enable_noise_suppression_unchecked(mic_name, control_level, cache, server, lib_path, reject) ==
    LET sl == sources_list(cache, server)
        lm == load_modules(mic_name, control_level, lib_path, reject)
    IN  [audio_sources |-> sl.audio_sources, ret |-> sl.ret,
         reqs |-> sl.reqs \o lm.reqs, loaded |-> lm.loaded, result |-> lm.result]

\* CadmusBackendApp.enable_noise_suppression
enable_noise_suppression(mic_name, control_level, cache, server, lib_path, reject) ==
    LET sl == sources_list(cache, server)
    IN  IF mic_name \notin Range(sl.ret)
        THEN [audio_sources |-> sl.audio_sources, ret |-> sl.ret,
              reqs |-> sl.reqs, loaded |-> <<>>, result |-> "Unknown mic name"]
        ELSE LET lm == load_modules(mic_name, control_level, lib_path, reject)
             IN  [audio_sources |-> sl.audio_sources, ret |-> sl.ret,
                  reqs |-> sl.reqs \o lm.reqs, loaded |-> lm.loaded,
                  result |-> lm.result]

\* variant: the binary is copied into the working directory, not the cache
drop_cadmus_binary_elsewhere(files, fs_ok) ==
    [cadmus_lib_path |-> CachePath,
     plugin_files    |-> IF fs_ok THEN files \cup {"librnnoise_ladspa.so"} ELSE files,
     raised          |-> ~fs_ok]

\* CadmusBackendApp.drop_cadmus_binary; fs_ok: makedirs and copyfile succeed
drop_cadmus_binary(files, fs_ok) ==
    [cadmus_lib_path |-> CachePath,
     plugin_files    |-> IF fs_ok THEN files \cup {CachePath} ELSE files,
     raised          |-> ~fs_ok]

----------------------------------------------------------------------------
(* The audio server *)

\* the server after loading the accepted module_load requests
Load(mods, loaded) ==
    [m \in ModuleNames |->
        mods[m] + Cardinality({i \in 1..Len(loaded) : loaded[i].name = m})]

\* the server after the cli lines: "unload-module NAME" unloads every
\* instance of the module NAME
ExecuteCli(mods, reqs) ==
    [m \in ModuleNames |->
        IF \E i \in 1..Len(reqs) :
              reqs[i].api = "cli" /\ reqs[i].name = "unload-module " \o m
        THEN 0 ELSE mods[m]]

NoModules == [m \in ModuleNames |-> 0]

----------------------------------------------------------------------------
\* the record of an operation of the running process; pre and cache are the
\* server's modules and the backend's audio_sources when the operation began
Op(op, shell, mic, level, result, reqs, listed, ret) ==
    [op |-> op, shell |-> shell, mic |-> mic, level |-> level, result |-> result,
     reqs |-> reqs, listed |-> listed, ret |-> ret, pre |-> modules,
     cache |-> IF op = "start" THEN <<>> ELSE audio_sources, rejected |-> 0]

\* whether a sources_list() call is the process's first
Listed(first) == IF first = <<>> THEN "first" ELSE "later"
NoteFirst(first, ret) == IF first = <<>> THEN <<ret>> ELSE first

Init ==
    /\ pc = "off"
    /\ args = [cmd |-> "none", source |-> ""]
    /\ audio_sources = <<>>
    /\ cadmus_lib_path = ""
    /\ modules = NoModules
    /\ plugin_files = {}
    /\ copied = FALSE
    /\ first_ret = <<>>
    /\ active = 0
    /\ last = Op("none", "none", "", Floor, "ok", <<>>, "no", <<>>)

\* the answers pulse.source_list() may give to a sources_list() call on this
\* cache: whatever sources the server has at that moment (it is not asked when
\* the cache is filled)
Answers(cache) == IF Len(cache) > 0 THEN {{}} ELSE SUBSET Devices

\* CadmusBackendApp.__init__ fails in drop_cadmus_binary: no process is left
StartFails(shell) ==
    LET drop == drop_cadmus_binary(plugin_files, FALSE)
    IN  /\ pc = "off"
        /\ pc' = "off"
        /\ args' = [cmd |-> "none", source |-> ""]
        /\ audio_sources' = <<>>
        /\ cadmus_lib_path' = ""
        /\ plugin_files' = drop.plugin_files
        /\ copied' = ~drop.raised
        /\ first_ret' = <<>>
        /\ last' = Op("start", shell, "", Floor, "FilesystemError", <<>>, "no", <<>>)
        /\ UNCHANGED <<modules, active>>

\* __main__ with CadmusApplicationCli.__init__: the backend is constructed,
\* the sources are listed for the choices of `enable`, the arguments parsed
StartCli(cmd, source, server) ==
    LET drop == drop_cadmus_binary(plugin_files, TRUE)
        sl   == sources_list(<<>>, server)
        bad  == cmd = "enable" /\ source \notin Range(sl.ret)
    IN  /\ pc = "off"
        /\ cmd = "enable" \/ source = ""
        /\ cadmus_lib_path' = drop.cadmus_lib_path
        /\ plugin_files' = drop.plugin_files
        /\ copied' = ~drop.raised
        /\ audio_sources' = sl.audio_sources
        /\ first_ret' = <<sl.ret>>
        /\ pc' = IF bad THEN "off" ELSE "cli"
        /\ args' = IF bad THEN [cmd |-> "none", source |-> ""]
                          ELSE [cmd |-> cmd, source |-> source]
        /\ last' = Op("start", "cli", source, Floor,
                      IF bad THEN "SystemExit" ELSE "ok", sl.reqs, "first", sl.ret)
        /\ UNCHANGED <<modules, active>>

\* a host constructs CadmusBackendApp
StartApp ==
    LET drop == drop_cadmus_binary(plugin_files, TRUE)
    IN  /\ pc = "off"
        /\ pc' = "app"
        /\ args' = [cmd |-> "none", source |-> ""]
        /\ audio_sources' = <<>>
        /\ cadmus_lib_path' = drop.cadmus_lib_path
        /\ plugin_files' = drop.plugin_files
        /\ copied' = ~drop.raised
        /\ first_ret' = <<>>
        /\ last' = Op("start", "app", "", Floor, "ok", <<>>, "no", <<>>)
        /\ UNCHANGED <<modules, active>>

\* a call of sources_list() by the shell; the process goes on at next_pc
DoSourcesList(shell, next_pc, server) ==
    LET sl == sources_list(audio_sources, server)
    IN  /\ audio_sources' = sl.audio_sources
        /\ first_ret' = NoteFirst(first_ret, sl.ret)
        /\ last' = Op("sources_list", shell, "", Floor, "ok", sl.reqs,
                      Listed(first_ret), sl.ret)
        /\ pc' = next_pc
        /\ UNCHANGED <<args, cadmus_lib_path, modules,
                       plugin_files, copied, active>>

\* a call of enable_noise_suppression(mic_name, control_level)
DoEnable(shell, next_pc, mic_name, control_level, server, reject) ==
    LET en == enable_noise_suppression(mic_name, control_level, audio_sources,
                                       server, cadmus_lib_path, reject)
    IN  /\ active < MaxChains
        /\ audio_sources' = en.audio_sources
        /\ first_ret' = NoteFirst(first_ret, en.ret)
        /\ modules' = Load(modules, en.loaded)
        /\ active' = IF en.result = "Unknown mic name" THEN active ELSE active + 1
        /\ last' = [Op("enable", shell, mic_name, control_level, en.result, en.reqs,
                         Listed(first_ret), en.ret)
                      EXCEPT !.rejected = IF en.result = "Unknown mic name" THEN 0 ELSE reject]
        /\ pc' = next_pc
        /\ UNCHANGED <<args, cadmus_lib_path, plugin_files, copied>>

\* a call of disable_noise_suppression(), as `op` of the shell
DoDisable(op, shell, next_pc) ==
    LET reqs == disable_noise_suppression
    IN  /\ modules' = ExecuteCli(modules, reqs)
        /\ active' = 0
        /\ last' = Op(op, shell, "", Floor, "ok", reqs, "no", <<>>)
        /\ pc' = next_pc
        /\ UNCHANGED <<args, audio_sources, cadmus_lib_path, plugin_files, copied,
                       first_ret>>

\* CadmusApplicationCli.run, after which __main__ ends
CliRunSources ==
    /\ pc = "cli" /\ args.cmd = "sources"
    /\ \E server \in Answers(audio_sources) : DoSourcesList("cli", "off", server)

CliRunEnable ==
    /\ pc = "cli" /\ args.cmd = "enable"
    /\ \E server \in Answers(audio_sources), reject \in 0..4 :
          DoEnable("cli", "off", args.source, CliLevel, server, reject)

CliRunDisable == pc = "cli" /\ args.cmd = "disable" /\ DoDisable("disable", "cli", "off")

CliRunNothing ==
    /\ pc = "cli" /\ args.cmd = "none"
    /\ pc' = "off"
    /\ last' = Op("none", "cli", "", Floor, "ok", <<>>, "no", <<>>)
    /\ UNCHANGED <<args, audio_sources, cadmus_lib_path, modules,
                   plugin_files, copied, first_ret, active>>

\* the host calls the backend
SourcesList ==
    /\ pc = "app"
    /\ \E server \in Answers(audio_sources) : DoSourcesList("app", "app", server)

Enable ==
    /\ pc = "app"
    /\ \E mic_name \in Devices, control_level \in Levels,
          server \in Answers(audio_sources), reject \in 0..4 :
          DoEnable("app", "app", mic_name, control_level, server, reject)

Disable == pc = "app" /\ DoDisable("disable", "app", "app")

\* variant: the application quits without disabling
Quit_without_disable ==
    /\ pc = "app"
    /\ pc' = "off"
    /\ last' = Op("quit", "app", "", Floor, "ok", <<>>, "no", <<>>)
    /\ UNCHANGED <<args, audio_sources, cadmus_lib_path, modules,
                   plugin_files, copied, first_ret, active>>

\* CadmusApplication.quit: disable, then the application quits
Quit == pc = "app" /\ DoDisable("quit", "app", "off")

Next ==
    \/ \E shell \in {"cli", "app"} : StartFails(shell)
    \/ \E cmd \in {"sources", "enable", "disable", "none"}, source \in Devices \cup {""},
          server \in Answers(<<>>) :
          StartCli(cmd, source, server)
    \/ StartApp
    \/ CliRunSources
    \/ CliRunEnable
    \/ CliRunDisable
    \/ CliRunNothing
    \/ SourcesList
    \/ Enable
    \/ Disable
    \/ Quit

Spec == Init /\ [][Next]_vars

----------------------------------------------------------------------------
(* Properties *)

IsEnable  == last.op = "enable"
IsDisable == last.op \in {"disable", "quit"}

\* the module-create and the cli requests of the last operation, in issue order
Creates  == SelectSeq(last.reqs, LAMBDA r : r.api = "module_load")
Unloads  == SelectSeq(last.reqs, LAMBDA r : r.api = "cli")
Names(reqs) == [i \in 1..Len(reqs) |-> reqs[i].name]

\* the last enable named a source that is not in the snapshot it validated against
UnknownMic == IsEnable /\ last.mic \notin Range(last.ret)
KnownMic   == IsEnable /\ last.mic \in Range(last.ret)

\* the cache was empty when the last operation began
CacheWasEmpty == last.cache = <<>>

CreateOrder == <<NullSink, LadspaSink, Loopback, RemapSrc>>

UnloadOrder ==
    << "unload-module module-loopback", "unload-module module-null-sink",
       "unload-module module-ladspa-sink", "unload-module module-remap-source" >>

\* the server's modules after the first n stages were added to those in pre
AfterStages(pre, n) ==
    [m \in ModuleNames |->
        pre[m] + (IF \E i \in 1..n : CreateOrder[i] = m THEN 1 ELSE 0)]

\* C1 as stated: enable() with a name that is not in the snapshot fails with the
\* unknown-device error and makes no request of any kind to the audio server.
C1_NoServerRequest ==
    UnknownMic => last.result = "Unknown mic name" /\ last.reqs = <<>>

\* C1 amended: enable() with a name that is not in the snapshot fails with the
\* unknown-device error, issues no module-create and no unload request and
\* leaves the server's modules as they were; its only server request is the
\* source-list query, made exactly when the cache was empty at the call.
C1_UnknownDeviceNoCreate ==
    UnknownMic =>
        /\ last.result = "Unknown mic name"
        /\ Creates = <<>> /\ Unloads = <<>>
        /\ modules = last.pre
        /\ last.reqs = IF CacheWasEmpty THEN <<SourceListQuery>> ELSE <<>>

C1_Witness ==
    /\ UnknownMic /\ last.result = "Unknown mic name"
    /\ last.reqs = <<SourceListQuery>>

\* C2: enable() with a known source and no rejected request issues exactly four
\* module-create calls, null sink, filter sink, loopback, remap source in that
\* order; the filter sink's sink_master is the null sink's name, the loopback's
\* sink is the filter sink's name and its source is the caller's device; every
\* sink a call refers to was created by an earlier call of the sequence.
C2_CreateSequence ==
    (KnownMic /\ last.rejected = 0) =>
        /\ Len(Creates) = 4
        /\ Names(Creates) = CreateOrder
        /\ Arg(Creates[1], "sink_name") = "mic_denoised_out"
        /\ Arg(Creates[2], "sink_name") = "mic_raw_in"
        /\ Arg(Creates[4], "source_name") = "denoised"
        /\ Arg(Creates[2], "sink_master") = Arg(Creates[1], "sink_name")
        /\ Arg(Creates[3], "sink") = Arg(Creates[2], "sink_name")
        /\ Arg(Creates[3], "source") = last.mic
        /\ \A i \in 1..4 :
              LET made == {Arg(Creates[j], "sink_name") :
                              j \in {k \in 1..(i-1) : HasArg(Creates[k], "sink_name")}}
              IN  /\ \A key \in {"sink_master", "sink"} :
                         HasArg(Creates[i], key) => Arg(Creates[i], key) \in made
                  /\ HasArg(Creates[i], "master") =>
                         Arg(Creates[i], "master") \in {n \o ".monitor" : n \in made}

C2_Witness ==
    KnownMic /\ last.rejected = 0 /\ last.result = "ok" /\ Len(Creates) = 4

\* C3: the control value of the filter-sink create call is 50 when the caller's
\* level is below 50 and the caller's level unchanged otherwise; a level below
\* 50 is no error: with a known source and no rejected request enable succeeds.
C3_ControlFloor ==
    IsEnable =>
        /\ \A i \in 1..Len(Creates) :
              Creates[i].name = LadspaSink =>
                  Arg(Creates[i], "control") =
                      (IF last.level < 50 THEN "50" ELSE ToString(last.level))
        /\ (KnownMic /\ last.rejected = 0 /\ last.level < 50) => last.result = "ok"

C3_Witness ==
    /\ IsEnable /\ last.level < 50 /\ last.result = "ok"
    /\ \E i \in 1..Len(Creates) :
          Creates[i].name = LadspaSink /\ Arg(Creates[i], "control") = "50"

\* C4: disable() issues exactly the four unload requests loopback, null sink,
\* filter sink, remap source, in that order, and no create request, whatever
\* modules the server holds (none, one chain, part of a chain, several chains).
C4_UnloadSequence ==
    IsDisable =>
        /\ Len(last.reqs) = 4
        /\ \A i \in 1..4 : last.reqs[i].api = "cli" /\ last.reqs[i].name = UnloadOrder[i]
        /\ Creates = <<>>

C4_Witness ==
    /\ last.op = "disable" /\ Len(Unloads) = 4
    /\ last.pre[NullSink] = 2 /\ last.pre[LadspaSink] = 1 /\ last.pre[RemapSrc] = 0

\* C5: a sources_list() call that is not the process's first returns the
\* snapshot of the first call and does not query the server.
C5_CachedSnapshot ==
    last.listed = "later" =>
        /\ last.ret = first_ret[1]
        /\ \A i \in 1..Len(last.reqs) : last.reqs[i] # SourceListQuery

\* C6: at most one enable create-sequence is issued between two disables, so
\* the server never holds two module chains.
C6_OneSession == active <= 1 /\ \A m \in ModuleNames : modules[m] <= 1

\* C7: after disable() none of the four modules remains loaded, whether the
\* earlier enables completed, stopped part-way or ran more than once.
C7_DisableUnloadsAll == IsDisable => modules = NoModules

C7_Witness ==
    /\ last.op = "disable" /\ modules = NoModules
    /\ last.pre[NullSink] = 2 /\ last.pre[Loopback] = 1

\* C8 as stated: whenever the program ends, by the CLI finishing an enable
\* subcommand or by the tray's quit action, the four unload requests were issued.
C8_UnloadOnEveryExit ==
    (pc = "off" /\ ((IsEnable /\ last.shell = "cli") \/ last.op = "quit")) =>
        Names(Unloads) = UnloadOrder

\* C8 amended: the quit action issues the four unload requests before the
\* process ends and leaves no module loaded; the CLI process that ends after an
\* enable subcommand issues no unload request, and the modules it created stay
\* loaded after it.
C8_UnloadOnQuitOnly ==
    /\ last.op = "quit" =>
          pc = "off" /\ Names(Unloads) = UnloadOrder /\ modules = NoModules
    /\ (IsEnable /\ last.shell = "cli") =>
          /\ pc = "off"
          /\ Unloads = <<>>
          /\ modules = AfterStages(last.pre,
                           IF last.result = "ok" THEN 4 ELSE Len(Creates) - 1)

C8_Witness ==
    /\ pc = "off" /\ IsEnable /\ last.shell = "cli" /\ last.result = "ok"
    /\ \A m \in ModuleNames : modules[m] >= 1

\* C9: a filter-sink create call is made only by a process that has completed
\* the plugin copy, and its plugin argument is the path the binary was copied to.
C9_PluginCopiedBeforeUse ==
    \A i \in 1..Len(Creates) :
        Creates[i].name = LadspaSink =>
            /\ copied
            /\ Arg(Creates[i], "plugin") = cadmus_lib_path
            /\ Arg(Creates[i], "plugin") \in plugin_files

C9_Witness ==
    /\ IsEnable /\ copied
    /\ \E i \in 1..Len(Creates) :
          Creates[i].name = LadspaSink /\ Arg(Creates[i], "plugin") = CachePath

\* C10: if the server rejects create stage k, enable() fails with the server's
\* error, the stages after k are not issued, no unload request is issued, and
\* the modules of stages 1..k-1 are loaded on top of what was loaded before;
\* loaded modules go away only by disable().
C10_Partial ==
    (IsEnable /\ last.rejected # 0) =>
        /\ last.result = "PulseError"
        /\ Len(Creates) = last.rejected
        /\ Names(Creates) = SubSeq(CreateOrder, 1, last.rejected)
        /\ Unloads = <<>>
        /\ modules = AfterStages(last.pre, last.rejected - 1)

C10_NoRollback ==
    [] C10_Partial /\
    [][(\E m \in ModuleNames : modules'[m] < modules[m]) =>
           last'.op \in {"disable", "quit"}]_vars

C10_Witness ==
    /\ IsEnable /\ last.rejected = 3 /\ last.result = "PulseError"
    /\ modules[NullSink] >= 1 /\ modules[LadspaSink] >= 1 /\ modules[Loopback] = 0
====
